---- MODULE Spec2Model ----
(***************************************************************************)
(* A model of sapp's BulkSaver (src/sapp/bulk_saver.py): the per-class     *)
(* buckets of pending records, save_all's reserve / prepare / before_save  *)
(* / save passes, and _save_batch's split-and-retry recursion against a    *)
(* store with a uniqueness constraint.                                     *)
(***************************************************************************)
EXTENDS Integers, Sequences, FiniteSets, TLC

\* ------------------------------------------------------------------ bounds
\* Records the client may add over a run of the model.
MaxItems == 2
\* Rows other writers may insert over a run of the model.
MaxRace == 1
\* BulkSaver.BATCH_SIZE as the model runs it (the class attribute is DEFAULT_BATCH_SIZE).
BATCH_SIZE == 2
\* Largest batch handed directly to _save_batch in SpecBatch.
MaxBatch == 9
\* Longest bucket handed to _prepare in SpecPrepare.
MaxPrep == 3

\* ------------------------------------------------------- program constants
DEFAULT_BATCH_SIZE == 30000
BATCH_SPLIT_FACTOR == 4

\* The head of BulkSaver.SAVING_CLASSES_ORDER (the list goes on the same way).
SAVING_CLASSES_ORDER == <<"SharedText", "Issue", "IssueInstance">>
\* A model class that is not saved through BulkSaver.
OtherModels == {"Run"}

Range(s) == {s[i] : i \in 1..Len(s)}
Classes == Range(SAVING_CLASSES_ORDER)
AllModels == Classes \cup OtherModels

\* Values of the column that carries the uniqueness constraint.
Keys == {1, 2}
\* list(cls.to_dict(r).keys()): the field names of a record, as ordinals.
Shapes == {<<1, 2>>, <<1, 3>>}

\* What a client constructs: a record of a model class.
NewRecords ==
    [model : Classes, key : Keys, shape : Shapes, ref : {0}]
    \cup [model : OtherModels, key : {1}, shape : {<<1, 2>>}, ref : {0}]

VARIABLES
    saving,          \* self.saving: class name -> list of records
    store,           \* the database: class name -> keys of the rows present
    pc,              \* where save_all stands: idle, prepare, hook, save, batch
    saving_classes,  \* save_all's local list of classes to save
    idx,             \* position of the running for loop in saving_classes
    chunks,          \* _save: the batches of split_every not yet handed to _save_batch
    stack,           \* the _save_batch calls in progress, outermost first
    log,             \* what save_all did against the store, until the next call
    result,          \* how the last call ended: ok, or the error it raised
    added,           \* records added per model class since the buckets were last all flushed
    clean,           \* no failed save_all and no mixed add_all since then
    budget,          \* adds the client may still make
    races,           \* rows other writers may still insert
    dbid,            \* the id objects of the records prepared so far:
                     \* <<class, seq>> -> the primary key the object stands for
    rows             \* the rows of the tables with their primary and foreign keys

vars == <<saving, store, pc, saving_classes, idx, chunks, stack, log, result,
          added, clean, budget, races, dbid, rows>>

locals == <<saving_classes, idx, chunks, stack>>

\* ----------------------------------------------------------------- helpers
Min(a, b) == IF a < b THEN a ELSE b

\* iterutil.split_every(n, iterable): lists of n items, the last possibly shorter.
RECURSIVE SplitEvery(_, _)
SplitEvery(n, s) ==
    IF s = <<>> \/ n <= 0 THEN <<>>
    ELSE <<SubSeq(s, 1, Min(n, Len(s)))>>
         \o SplitEvery(n, SubSeq(s, Min(n, Len(s)) + 1, Len(s)))

\* Python's list comparison of two lists of field names.
RECURSIVE LexLess(_, _)
LexLess(a, b) ==
    IF b = <<>> THEN FALSE
    ELSE IF a = <<>> THEN TRUE
    ELSE IF Head(a) # Head(b) THEN Head(a) < Head(b)
    ELSE LexLess(Tail(a), Tail(b))

\* One event of the log.
Ev(op, cls, batch, res, n) ==
    [op |-> op, cls |-> cls, batch |-> batch, res |-> res, n |-> n]

\* ------------------------------------------------------------ primary keys
\* A record's ref is 0, or the seq of the SharedText record whose id object the
\* record holds as its foreign key (as in shared_text_id=shared_text.id).
RefClass == "SharedText"

\* No id object has a value yet.
NoIds == [c \in {} |-> 0]

\* The key the generator reserved for the record seq of cls, and the key of a row
\* that another writer, or an earlier save_all, inserted: all different.
OwnId(cls, key, seq) == [by |-> "reserved", cls |-> cls, key |-> key, seq |-> seq]
OtherId(cls, key) == [by |-> "other", cls |-> cls, key |-> key, seq |-> 0]
NullId == [by |-> "null", cls |-> "", key |-> 0, seq |-> 0]

\* A row of another writer: it references nothing.
OtherRow(cls, key) == [cls |-> cls, key |-> key, id |-> OtherId(cls, key), fk |-> NullId]

\* The primary key of the row of cls with the unique column at key.
RowId(cls, key) == (CHOOSE row \in rows : row.cls = cls /\ row.key = key).id

\* The value of the id object cell, NullId while it has none.
IdOf(cell) == IF cell \in DOMAIN dbid THEN dbid[cell] ELSE NullId

\* The id objects the pending records hold: their own and those they reference.
Live ==
    UNION {{<<c, saving[c][i].seq>> : i \in 1..Len(saving[c])} : c \in Classes}
    \cup UNION {{<<RefClass, saving[c][i].ref>> :
                    i \in {k \in 1..Len(saving[c]) : saving[c][k].ref # 0}} :
                   c \in Classes}

\* The id objects left once those no pending record holds are gone: a record
\* constructed from now on has an id object of its own.
Collected == [c \in DOMAIN dbid \cap Live |-> dbid[c]]

\* Mutant of to_dict: the foreign key is the key reserved for the referenced record.
to_dict_reserved(cls, r) ==
    [cls |-> cls, key |-> r.key, id |-> IdOf(<<cls, r.seq>>),
     fk |-> IF r.ref = 0 THEN NullId ELSE OwnId(RefClass, r.ref, r.ref)]

\* cls.to_dict(r), called when the insert runs: the row with the values the id
\* objects of the record have by then.
to_dict(cls, r) ==
    [cls |-> cls, key |-> r.key, id |-> IdOf(<<cls, r.seq>>),
     fk |-> IF r.ref = 0 THEN NullId ELSE IdOf(<<RefClass, r.ref>>)]

\* __init__: every class of SAVING_CLASSES_ORDER gets an empty list.
Init ==
    /\ saving = [c \in Classes |-> <<>>]
    /\ store = [c \in Classes |-> {}]
    /\ pc = "idle"
    /\ saving_classes = <<>>
    /\ idx = 0
    /\ chunks = <<>>
    /\ stack = <<>>
    /\ log = <<>>
    /\ result = "ok"
    /\ added = [m \in AllModels |-> 0]
    /\ clean = TRUE
    /\ budget = MaxItems
    /\ races = MaxRace
    /\ dbid = NoIds
    /\ rows = {}

\* A record as it sits in a bucket: seq tells apart the objects of one bucket.
Stored(item, bucket) ==
    [model |-> item.model, key |-> item.key, shape |-> item.shape, ref |-> item.ref,
     seq |-> Len(bucket) + 1]

RECURSIVE Extend(_, _)
Extend(bucket, items) ==
    IF items = <<>> THEN bucket
    ELSE Extend(Append(bucket, Stored(Head(items), bucket)), Tail(items))

\* Mutant of Add: no assert, a record of another class lands in the first bucket.
AddUnchecked(item) ==
    /\ pc = "idle"
    /\ budget > 0
    /\ LET b == IF item.model \in Classes THEN item.model ELSE SAVING_CLASSES_ORDER[1]
       IN saving' = [saving EXCEPT ![b] = Extend(@, <<item>>)]
    /\ added' = [added EXCEPT ![item.model] = @ + 1]
    /\ result' = "ok"
    /\ budget' = budget - 1
    /\ log' = <<>>
    /\ UNCHANGED <<store, pc, locals, clean, races>>
    /\ dbid' = Collected
    /\ UNCHANGED rows

\* add: the assert on item.model, then the append.
Add(item) ==
    /\ pc = "idle"
    /\ budget > 0
    /\ IF item.model \in Classes
       THEN /\ saving' = [saving EXCEPT ![item.model] = Extend(@, <<item>>)]
            /\ added' = [added EXCEPT ![item.model] = @ + 1]
            /\ result' = "ok"
            /\ budget' = budget - 1
       ELSE /\ result' = "AssertionError"
            /\ UNCHANGED <<saving, added, budget>>
    /\ log' = <<>>
    /\ UNCHANGED <<store, pc, locals, clean, races>>
    /\ dbid' = Collected
    /\ UNCHANGED rows

\* The lists a client may hand to add_all, the empty one and mixed ones included.
ItemLists ==
    {<<>>} \cup {<<a>> : a \in NewRecords} \cup {<<a, b>> : a, b \in NewRecords}

CountOf(items, m) == Cardinality({i \in 1..Len(items) : items[i].model = m})

\* add_all: only items[0].model is asserted, and names the bucket for all of them.
AddAll(items) ==
    /\ pc = "idle"
    /\ Len(items) <= budget
    /\ IF items = <<>>
       THEN /\ result' = "ok"
            /\ UNCHANGED <<saving, added, clean, budget>>
       ELSE IF items[1].model \in Classes
       THEN /\ saving' = [saving EXCEPT ![items[1].model] = Extend(@, items)]
            /\ added' = [m \in AllModels |-> added[m] + CountOf(items, m)]
            /\ clean' = (clean /\ \A i \in 1..Len(items) : items[i].model = items[1].model)
            /\ result' = "ok"
            /\ budget' = budget - Len(items)
       ELSE /\ result' = "AssertionError"
            /\ UNCHANGED <<saving, added, clean, budget>>
    /\ log' = <<>>
    /\ UNCHANGED <<store, pc, locals, races>>
    /\ dbid' = Collected
    /\ UNCHANGED rows

\* Mutant of dump_stats: the length of self.saving instead of the bucket's.
dump_stats_of_dict ==
    [i \in 1..Len(SAVING_CLASSES_ORDER) |->
        <<SAVING_CLASSES_ORDER[i], Cardinality(DOMAIN saving)>>]

\* dump_stats: one "<class>: <count>" line per class of SAVING_CLASSES_ORDER.
dump_stats ==
    [i \in 1..Len(SAVING_CLASSES_ORDER) |->
        <<SAVING_CLASSES_ORDER[i], Len(saving[SAVING_CLASSES_ORDER[i]])>>]

\* ---------------------------------------------------------------- save_all
Reverse(s) == [i \in 1..Len(s) |-> s[Len(s) + 1 - i]]

\* Mutant of SavingClasses: the classes are taken last first.
SavingClassesReversed ==
    SelectSeq(Reverse(SAVING_CLASSES_ORDER), LAMBDA c : Len(saving[c]) # 0)

\* Mutant of SavingClasses: the empty buckets are not left out.
SavingClassesAll == SAVING_CLASSES_ORDER

\* save_all's saving_classes: the classes with a non-empty bucket, in order.
SavingClasses == SelectSeq(SAVING_CLASSES_ORDER, LAMBDA c : Len(saving[c]) # 0)

\* Mutant of ItemCounts: a count for every class, the empty buckets included.
ItemCountsOfAll(sc) ==
    [i \in 1..Len(SAVING_CLASSES_ORDER) |->
        <<SAVING_CLASSES_ORDER[i], Len(saving[SAVING_CLASSES_ORDER[i]])>>]

\* save_all's item_counts, as the list of (class, count) handed to reserve.
ItemCounts(sc) == [i \in 1..Len(sc) |-> <<sc[i], Len(saving[sc[i]])>>]

\* save_all leaves by an exception: its locals are gone, the buckets stay as they are.
Raise(res, lg) ==
    /\ pc' = "idle"
    /\ saving_classes' = <<>>
    /\ idx' = 0
    /\ chunks' = <<>>
    /\ stack' = <<>>
    /\ log' = lg
    /\ result' = res
    /\ clean' = FALSE
    /\ UNCHANGED <<added, budget>>

\* save_all returns normally.
Finish(lg) ==
    /\ pc' = "idle"
    /\ saving_classes' = <<>>
    /\ idx' = 0
    /\ chunks' = <<>>
    /\ stack' = <<>>
    /\ log' = Append(lg, Ev("return", "", <<>>, "ok", 0))
    /\ result' = "ok"
    /\ clean' = TRUE
    /\ added' = [m \in AllModels |-> 0]
    /\ UNCHANGED budget

\* save_all up to the end of the reserve session.
SaveAll ==
    /\ pc = "idle"
    /\ saving_classes' = SavingClasses
    /\ log' = <<Ev("reserve", "", ItemCounts(SavingClasses), "ok", 0)>>
    /\ pc' = IF SavingClasses = <<>> THEN "hook" ELSE "prepare"
    /\ idx' = 1
    /\ UNCHANGED <<saving, store, chunks, stack, result, added, clean, budget, races>>
    /\ UNCHANGED <<dbid, rows>>

\* primary_key_generator.reserve, or its session, raises.
SaveAllReserveRaises ==
    /\ pc = "idle"
    /\ Raise("OperationalError",
             <<Ev("reserve", "", ItemCounts(SavingClasses), "OperationalError", 0)>>)
    /\ UNCHANGED <<saving, store, races>>
    /\ UNCHANGED <<dbid, rows>>

\* cls.prepare: the records merge does not resolve against a row of the store.
ClsPrepare(cls, items) == SelectSeq(items, LAMBDA r : r.key \notin store[cls])

\* sorted(..., key=field names): r goes behind every record not greater than it.
RECURSIVE InsertSorted(_, _)
InsertSorted(s, r) ==
    IF s = <<>> THEN <<r>>
    ELSE IF LexLess(r.shape, s[Len(s)].shape)
         THEN Append(InsertSorted(SubSeq(s, 1, Len(s) - 1), r), s[Len(s)])
         ELSE Append(s, r)

RECURSIVE SortedByShape(_)
SortedByShape(s) ==
    IF s = <<>> THEN <<>>
    ELSE InsertSorted(SortedByShape(SubSeq(s, 1, Len(s) - 1)), s[Len(s)])

\* cls.prepare on the bucket of cls: the id object of a record that merge folds in
\* a row stands for that row's key, that of any other record for a reserved key.
Assigned(cls) ==
    LET cells == {<<cls, saving[cls][i].seq>> : i \in 1..Len(saving[cls])}
        rec(cell) == CHOOSE r \in Range(saving[cls]) : r.seq = cell[2]
    IN [c \in DOMAIN dbid \cup cells |->
           IF c \in cells
           THEN IF rec(c).key \in store[cls]
                THEN RowId(cls, rec(c).key)
                ELSE OwnId(cls, rec(c).key, rec(c).seq)
           ELSE dbid[c]]

\* cls.merge on the duplicate r: its id object now stands for the key of the row.
Resolved(cls, r) ==
    [c \in DOMAIN dbid \cup {<<cls, r.seq>>} |->
        IF c = <<cls, r.seq>> THEN RowId(cls, r.key) ELSE dbid[c]]

\* Mutant of Prepared: what cls.prepare returns is stored as it comes.
PreparedUnsorted(cls) == ClsPrepare(cls, saving[cls])

\* _prepare's new bucket for cls.
Prepared(cls) == SortedByShape(ClsPrepare(cls, saving[cls]))

\* One turn of save_all's first loop: _prepare(cls).
Prepare ==
    /\ pc = "prepare"
    /\ LET cls == saving_classes[idx] IN
       /\ saving' = [saving EXCEPT ![cls] = Prepared(cls)]
       /\ log' = Append(log, Ev("prepare", cls, Prepared(cls), "ok", 0))
    /\ IF idx < Len(saving_classes)
       THEN idx' = idx + 1 /\ pc' = pc
       ELSE idx' = 1 /\ pc' = "hook"
    /\ UNCHANGED <<store, saving_classes, chunks, stack, result, added, clean,
                   budget, races>>
    /\ dbid' = Assigned(saving_classes[idx])
    /\ UNCHANGED rows

\* cls.prepare raises (its merge reads the store).
PrepareRaises ==
    /\ pc = "prepare"
    /\ Raise("OperationalError",
             Append(log, Ev("prepare", saving_classes[idx], <<>>, "OperationalError", 0)))
    /\ UNCHANGED <<saving, store, races>>
    /\ UNCHANGED <<dbid, rows>>

\* save_all's second loop starts, or save_all returns when there is nothing to save.
StartSaving(lg) ==
    IF saving_classes = <<>>
    THEN Finish(lg)
    ELSE /\ pc' = "save"
         /\ idx' = 1
         /\ log' = lg
         /\ UNCHANGED <<saving_classes, chunks, stack, result, added, clean, budget>>

\* before_save is None.
BeforeSaveNone ==
    /\ pc = "hook"
    /\ StartSaving(log)
    /\ UNCHANGED <<saving, store, races>>
    /\ UNCHANGED <<dbid, rows>>

\* The rows another writer may insert in the tables save_all is about to write.
Rows == Range(saving_classes) \X Keys

\* before_save(): another writer inserts the rows W.
BeforeSave(W) ==
    /\ pc = "hook"
    /\ Cardinality(W) <= races
    /\ \A w \in W : w[2] \notin store[w[1]]
    /\ store' = [c \in Classes |-> store[c] \cup {w[2] : w \in {x \in W : x[1] = c}}]
    /\ races' = races - Cardinality(W)
    /\ StartSaving(Append(log, Ev("before_save", "", <<>>, "ok", 0)))
    /\ UNCHANGED saving
    /\ rows' = rows \cup {OtherRow(w[1], w[2]) : w \in W}
    /\ UNCHANGED dbid

\* before_save() raises.
BeforeSaveRaises ==
    /\ pc = "hook"
    /\ Raise("HookError", Append(log, Ev("before_save", "", <<>>, "HookError", 0)))
    /\ UNCHANGED <<saving, store, races>>
    /\ UNCHANGED <<dbid, rows>>

\* ------------------------------------------------------ _save, _save_batch
\* A _save_batch call that has not tried its insert yet: round_trips = 1.
Frame(batch) == [batch |-> batch, subs |-> <<>>, rt |-> 1]

\* _save returned for saving_classes[idx]: the next class, or save_all returns.
EndOfSave(lg) ==
    IF idx < Len(saving_classes)
    THEN /\ pc' = "save"
         /\ idx' = idx + 1
         /\ chunks' = <<>>
         /\ stack' = <<>>
         /\ log' = lg
         /\ UNCHANGED <<saving_classes, result, added, clean, budget>>
    ELSE Finish(lg)

\* _save's for loop takes the batches ch one after the other.
NextChunk(ch, lg) ==
    IF ch = <<>>
    THEN EndOfSave(lg)
    ELSE /\ pc' = "batch"
         /\ stack' = <<Frame(Head(ch))>>
         /\ chunks' = Tail(ch)
         /\ log' = lg
         /\ UNCHANGED <<saving_classes, idx, result, added, clean, budget>>

\* Mutant of Save: the bucket is not emptied.
SaveKeepsBucket ==
    /\ pc = "save"
    /\ LET cls == saving_classes[idx]
           items == saving[cls]
       IN NextChunk(SplitEvery(BATCH_SIZE, items),
                    Append(log, Ev("save", cls, items, "ok", 0)))
    /\ UNCHANGED <<saving, store, races>>
    /\ UNCHANGED <<dbid, rows>>

\* Mutant of Save: the whole list goes to _save_batch as one batch.
SaveUnsplit ==
    /\ pc = "save"
    /\ LET cls == saving_classes[idx]
           items == saving[cls]
       IN /\ saving' = [saving EXCEPT ![cls] = <<>>]
          /\ NextChunk(IF items = <<>> THEN <<>> ELSE <<items>>,
                       Append(log, Ev("save", cls, items, "ok", 0)))
    /\ UNCHANGED <<store, races>>
    /\ UNCHANGED <<dbid, rows>>

\* _save(cls): take the bucket, empty it, split it in batches of BATCH_SIZE.
Save ==
    /\ pc = "save"
    /\ LET cls == saving_classes[idx]
           items == saving[cls]
       IN /\ saving' = [saving EXCEPT ![cls] = <<>>]
          /\ NextChunk(SplitEvery(BATCH_SIZE, items),
                       Append(log, Ev("save", cls, items, "ok", 0)))
    /\ UNCHANGED <<store, races>>
    /\ UNCHANGED <<dbid, rows>>

\* Mutant of SubBatchSize: floor division.
SubBatchSizeFloor(batch) == Len(batch) \div BATCH_SPLIT_FACTOR

\* Mutant of SubBatchSize: one record per retry.
SubBatchSizeOne(batch) == 1

\* Mutant of SubBatchSize: the batch is split in two.
SubBatchSizeHalf(batch) == -(Len(batch) \div (-2))

\* The sub-batch size of a failed batch: ceiling division by the split factor.
SubBatchSize(batch) == -(Len(batch) \div (-BATCH_SPLIT_FACTOR))

\* Mutant of Unwind: round_trips = self._save_batch(...) in place of +=.
RECURSIVE UnwindAssign(_, _)
UnwindAssign(stk, v) ==
    IF stk = <<>> THEN [stack |-> <<>>, ret |-> v]
    ELSE LET caller == stk[Len(stk)]
             below == SubSeq(stk, 1, Len(stk) - 1)
         IN IF caller.subs # <<>>
            THEN [stack |-> below
                            \o <<[caller EXCEPT !.rt = v, !.subs = Tail(@)]>>
                            \o <<Frame(Head(caller.subs))>>,
                  ret |-> 0]
            ELSE UnwindAssign(below, v)

\* A _save_batch call returned v to the calls stk above it: each caller adds v to
\* its round_trips and goes on with its next sub-batch, or returns in its turn.
\* ret is what the outermost call returned, 0 while it is still running.
RECURSIVE Unwind(_, _)
Unwind(stk, v) ==
    IF stk = <<>> THEN [stack |-> <<>>, ret |-> v]
    ELSE LET caller == stk[Len(stk)]
             below == SubSeq(stk, 1, Len(stk) - 1)
         IN IF caller.subs # <<>>
            THEN [stack |-> below
                            \o <<[caller EXCEPT !.rt = @ + v, !.subs = Tail(@)]>>
                            \o <<Frame(Head(caller.subs))>>,
                  ret |-> 0]
            ELSE Unwind(below, caller.rt + v)

Top == stack[Len(stack)]
Callers == SubSeq(stack, 1, Len(stack) - 1)
CurrentClass == saving_classes[idx]

\* bulk_insert_mappings raises IntegrityError: a key of the batch is in the table,
\* or twice in the batch.
Conflicts(cls, batch) ==
    \/ \E i \in 1..Len(batch) : batch[i].key \in store[cls]
    \/ \E i, j \in 1..Len(batch) : i # j /\ batch[i].key = batch[j].key

\* The innermost _save_batch call returns v.
Return(v, lg) ==
    LET u == Unwind(Callers, v) IN
    IF u.ret = 0
    THEN /\ stack' = u.stack
         /\ log' = lg
         /\ UNCHANGED <<pc, saving_classes, idx, chunks, result, added, clean, budget>>
    ELSE NextChunk(chunks,
                   Append(lg, Ev("round_trips", CurrentClass, stack[1].batch, "ok", u.ret)))

\* Mutant of SaveBatchInserted: the session is left without a commit.
SaveBatchNotCommitted ==
    /\ pc = "batch"
    /\ ~Conflicts(CurrentClass, Top.batch)
    /\ Return(Top.rt, Append(log, Ev("insert", CurrentClass, Top.batch, "ok", 0)))
    /\ UNCHANGED <<saving, store, races>>
    /\ UNCHANGED <<dbid, rows>>

\* _save_batch: the bulk insert commits.
SaveBatchInserted ==
    /\ pc = "batch"
    /\ ~Conflicts(CurrentClass, Top.batch)
    /\ store' = [store EXCEPT ![CurrentClass] =
                     @ \cup {Top.batch[i].key : i \in 1..Len(Top.batch)}]
    /\ Return(Top.rt, Append(log, Ev("insert", CurrentClass, Top.batch, "ok", 0)))
    /\ UNCHANGED <<saving, races>>
    /\ rows' = rows \cup {to_dict(CurrentClass, Top.batch[i]) : i \in 1..Len(Top.batch)}
    /\ UNCHANGED dbid

\* _save_batch: IntegrityError on a batch of one, and merge resolves the record.
SaveBatchRemerged ==
    /\ pc = "batch"
    /\ Conflicts(CurrentClass, Top.batch)
    /\ Len(Top.batch) = 1
    /\ Return(Top.rt,
              log \o <<Ev("insert", CurrentClass, Top.batch, "IntegrityError", 0),
                       Ev("merge", CurrentClass, Top.batch, "ok", 0)>>)
    /\ UNCHANGED <<saving, store, races>>
    /\ dbid' = Resolved(CurrentClass, Top.batch[1])
    /\ UNCHANGED rows

\* Mutant of SaveBatchUnresolved: the unresolved record is logged and passed over.
SaveBatchUnresolvedPassed ==
    /\ pc = "batch"
    /\ Conflicts(CurrentClass, Top.batch)
    /\ Len(Top.batch) = 1
    /\ Return(Top.rt,
              log \o <<Ev("insert", CurrentClass, Top.batch, "IntegrityError", 0),
                       Ev("merge", CurrentClass, Top.batch, "ValueError", 1)>>)
    /\ UNCHANGED <<saving, store, races>>
    /\ UNCHANGED <<dbid, rows>>

\* _save_batch: IntegrityError on a batch of one, and merge hands the record back.
SaveBatchUnresolved ==
    /\ pc = "batch"
    /\ Conflicts(CurrentClass, Top.batch)
    /\ Len(Top.batch) = 1
    /\ Raise("ValueError",
             log \o <<Ev("insert", CurrentClass, Top.batch, "IntegrityError", 0),
                      Ev("merge", CurrentClass, Top.batch, "ValueError", 1)>>)
    /\ UNCHANGED <<saving, store, races>>
    /\ UNCHANGED <<dbid, rows>>

\* _save_batch: IntegrityError on a longer batch: split it and retry the first part.
SaveBatchSplit ==
    /\ pc = "batch"
    /\ Conflicts(CurrentClass, Top.batch)
    /\ Len(Top.batch) # 1
    /\ LET subs == SplitEvery(SubBatchSize(Top.batch), Top.batch)
           lg == Append(log, Ev("insert", CurrentClass, Top.batch, "IntegrityError", 0))
       IN IF subs = <<>>
          THEN Return(Top.rt, lg)
          ELSE /\ stack' = Callers \o <<[Top EXCEPT !.subs = Tail(subs)]>>
                                   \o <<Frame(Head(subs))>>
               /\ log' = lg
               /\ UNCHANGED <<pc, saving_classes, idx, chunks, result, added, clean,
                              budget>>
    /\ UNCHANGED <<saving, store, races>>
    /\ UNCHANGED <<dbid, rows>>

\* Mutant of SaveBatchRaises: every exception of the insert is caught, and the batch
\* passed over.
SaveBatchRaisesCaught ==
    /\ pc = "batch"
    /\ Return(Top.rt,
              Append(log, Ev("insert", CurrentClass, Top.batch, "OperationalError", 0)))
    /\ UNCHANGED <<saving, store, races>>
    /\ UNCHANGED <<dbid, rows>>

\* _save_batch: the insert fails for another reason than a duplicate key.
SaveBatchRaises ==
    /\ pc = "batch"
    /\ Raise("OperationalError",
             Append(log, Ev("insert", CurrentClass, Top.batch, "OperationalError", 0)))
    /\ UNCHANGED <<saving, store, races>>
    /\ UNCHANGED <<dbid, rows>>

Next ==
    \/ \E item \in NewRecords : Add(item)
    \/ \E items \in ItemLists : AddAll(items)
    \/ SaveAll
    \/ SaveAllReserveRaises
    \/ Prepare
    \/ PrepareRaises
    \/ BeforeSaveNone
    \/ \E W \in SUBSET Rows : BeforeSave(W)
    \/ BeforeSaveRaises
    \/ Save
    \/ SaveBatchInserted
    \/ SaveBatchRemerged
    \/ SaveBatchUnresolved
    \/ SaveBatchSplit
    \/ SaveBatchRaises

Spec == Init /\ [][Next]_vars

\* ------------------------------------------- the write pass on longer lists
\* A list of n records of one class with n different keys.
BatchOf(cls, n) ==
    [i \in 1..n |-> [model |-> cls, key |-> i, shape |-> <<1, 2>>, ref |-> 0, seq |-> i]]

\* save_all at the start of its second loop: SharedText holds n prepared records with
\* n different keys, Issue holds one; the rows with the keys d (SharedText) and
\* e (Issue) reached the tables after _prepare.
InitSave ==
    \E n \in 1..MaxBatch : \E d \in SUBSET (1..n) : \E e \in SUBSET {1} :
        /\ saving = [c \in Classes |->
                        IF c = "SharedText" THEN BatchOf("SharedText", n)
                        ELSE IF c = "Issue" THEN BatchOf("Issue", 1) ELSE <<>>]
        /\ store = [c \in Classes |->
                       IF c = "SharedText" THEN d ELSE IF c = "Issue" THEN e ELSE {}]
        /\ pc = "save"
        /\ saving_classes = <<"SharedText", "Issue">>
        /\ idx = 1
        /\ chunks = <<>>
        /\ stack = <<>>
        /\ log = <<Ev("reserve", "", <<<<"SharedText", n>>, <<"Issue", 1>>>>, "ok", 0),
                   Ev("prepare", "SharedText", BatchOf("SharedText", n), "ok", 0),
                   Ev("prepare", "Issue", BatchOf("Issue", 1), "ok", 0),
                   Ev("before_save", "", <<>>, "ok", 0)>>
        /\ result = "ok"
        /\ added = [m \in AllModels |-> 0]
        /\ clean = TRUE
        /\ budget = 0
        /\ races = 0
        /\ dbid = [c \in {<<"SharedText", i>> : i \in 1..n} \cup {<<"Issue", 1>>} |->
                       OwnId(c[1], c[2], c[2])]
        /\ rows = {OtherRow("SharedText", k) : k \in d} \cup {OtherRow("Issue", k) : k \in e}

NextSave ==
    \/ Save
    \/ SaveBatchInserted
    \/ SaveBatchRemerged
    \/ SaveBatchUnresolved
    \/ SaveBatchSplit
    \/ SaveBatchRaises

SpecSave == InitSave /\ [][NextSave]_vars

\* ------------------------------------------------- _save_batch on its own

\* _save(SharedText) hands _save_batch one batch of up to MaxBatch records, of which
\* the rows with the keys d are in the table already.
InitBatch ==
    \E n \in 1..MaxBatch : \E d \in SUBSET (1..n) :
        /\ saving = [c \in Classes |-> <<>>]
        /\ store = [c \in Classes |-> IF c = "SharedText" THEN d ELSE {}]
        /\ pc = "batch"
        /\ saving_classes = <<"SharedText">>
        /\ idx = 1
        /\ chunks = <<>>
        /\ stack = <<Frame(BatchOf("SharedText", n))>>
        /\ log = <<>>
        /\ result = "ok"
        /\ added = [m \in AllModels |-> 0]
        /\ clean = TRUE
        /\ budget = 0
        /\ races = 0
        /\ dbid = [c \in {<<"SharedText", i>> : i \in 1..n} |-> OwnId(c[1], c[2], c[2])]
        /\ rows = {OtherRow("SharedText", k) : k \in d}

NextBatch ==
    \/ SaveBatchInserted
    \/ SaveBatchRemerged
    \/ SaveBatchUnresolved
    \/ SaveBatchSplit
    \/ SaveBatchRaises

SpecBatch == InitBatch /\ [][NextBatch]_vars

\* ------------------------------------------------------ _prepare on its own
\* Field-name lists of the records _prepare is given here: a class's field names
\* come in the order of its columns.
PrepShapes == {<<1>>, <<1, 2>>, <<1, 3>>}

\* The lists of n records of SharedText, with any keys and field names.
BucketsOf(n) ==
    {[i \in 1..n |-> [model |-> "SharedText", key |-> f[i][1], shape |-> f[i][2],
                      ref |-> 0, seq |-> i]] :
         f \in [1..n -> Keys \X PrepShapes]}

\* save_all at the start of its first loop, with up to MaxPrep records of one class
\* pending and the rows with the keys d in the table.
InitPrepare ==
    \E n \in 1..MaxPrep : \E b \in BucketsOf(n) : \E d \in SUBSET Keys :
        /\ saving = [c \in Classes |-> IF c = "SharedText" THEN b ELSE <<>>]
        /\ store = [c \in Classes |-> IF c = "SharedText" THEN d ELSE {}]
        /\ pc = "prepare"
        /\ saving_classes = <<"SharedText">>
        /\ idx = 1
        /\ chunks = <<>>
        /\ stack = <<>>
        /\ log = <<Ev("reserve", "", <<<<"SharedText", n>>>>, "ok", 0)>>
        /\ result = "ok"
        /\ added = [m \in AllModels |-> IF m = "SharedText" THEN n ELSE 0]
        /\ clean = TRUE
        /\ budget = 0
        /\ races = 0
        /\ dbid = NoIds
        /\ rows = {OtherRow("SharedText", k) : k \in d}

NextPrepare ==
    \/ Prepare
    \/ PrepareRaises

SpecPrepare == InitPrepare /\ [][NextPrepare]_vars

\* ------------------------------------------- records that reference records
\* Two SharedText records with the keys 1 and 2 and an IssueInstance record that
\* holds the id object of one of them are pending; the rows with the keys d are in
\* the SharedText table already. The SharedText record of seq s has the key s.
InitRef ==
    \E s \in {1, 2} : \E d \in SUBSET {1, 2} :
        /\ saving = [c \in Classes |->
                        IF c = "SharedText" THEN BatchOf("SharedText", 2)
                        ELSE IF c = "IssueInstance"
                        THEN <<[model |-> c, key |-> 1, shape |-> <<1, 2>>, ref |-> s,
                                seq |-> 1]>>
                        ELSE <<>>]
        /\ store = [c \in Classes |-> IF c = "SharedText" THEN d ELSE {}]
        /\ pc = "idle"
        /\ saving_classes = <<>>
        /\ idx = 0
        /\ chunks = <<>>
        /\ stack = <<>>
        /\ log = <<>>
        /\ result = "ok"
        /\ added = [m \in AllModels |->
                       IF m = "SharedText" THEN 2 ELSE IF m = "IssueInstance" THEN 1 ELSE 0]
        /\ clean = TRUE
        /\ budget = 0
        /\ races = MaxRace
        /\ dbid = NoIds
        /\ rows = {OtherRow("SharedText", k) : k \in d}

NextRef ==
    \/ SaveAll
    \/ SaveAllReserveRaises
    \/ Prepare
    \/ PrepareRaises
    \/ BeforeSaveNone
    \/ \E W \in SUBSET Rows : BeforeSave(W)
    \/ BeforeSaveRaises
    \/ Save
    \/ SaveBatchInserted
    \/ SaveBatchRemerged
    \/ SaveBatchUnresolved
    \/ SaveBatchSplit
    \/ SaveBatchRaises

SpecRef == InitRef /\ [][NextRef]_vars

\* _save_batch runs to its end: the code is sequential and every step of it returns.
SpecBatchLive == InitBatch /\ [][NextBatch]_vars /\ WF_vars(NextBatch)

\* ------------------------------------------------------------ properties
\* The place of a class in the dependency order.
Pos(c) == CHOOSE i \in 1..Len(SAVING_CLASSES_ORDER) : SAVING_CLASSES_ORDER[i] = c
Before(j, i) == Pos(j) < Pos(i)

\* The classes the running (or last) save_all found with pending records.
Reserved ==
    IF log # <<>> /\ log[1].op = "reserve"
    THEN {log[1].batch[i][1] : i \in 1..Len(log[1].batch)}
    ELSE {}

\* What _save and _save_batch do for a class.
WriteOps == {"save", "insert", "merge"}

\* _save(j) ran, and was over, before the event at p.
SaveDoneBefore(j, p) ==
    /\ \E q \in 1..(p - 1) : log[q].op = "save" /\ log[q].cls = j
    /\ \A q \in p..Len(log) : log[q].cls = j => log[q].op \notin WriteOps

\* C1 as stated: a class with pending records is neither prepared nor written before
\* _save is over for every earlier class with pending records.
C1_PreparedAndWrittenAfterEarlier ==
    \A p \in 1..Len(log) :
        log[p].op \in WriteOps \cup {"prepare"} =>
            \A j \in Reserved : Before(j, log[p].cls) => SaveDoneBefore(j, p)

\* C1: a class with pending records is not written before _save is over for every
\* earlier class with pending records; every _prepare comes before the first write.
C1_WrittenAfterEarlier ==
    /\ \A p \in 1..Len(log) :
           log[p].op \in WriteOps =>
               \A j \in Reserved : Before(j, log[p].cls) => SaveDoneBefore(j, p)
    /\ \A p, q \in 1..Len(log) :
           log[p].op = "prepare" /\ log[q].op \in WriteOps => p < q

\* Two classes were written in one save_all.
C1_Witness ==
    \E p, q \in 1..Len(log) :
        /\ log[p].op = "insert" /\ log[q].op = "insert"
        /\ Before(log[p].cls, log[q].cls)

\* save_all has just returned or raised (the next add or add_all clears the log).
Returned == pc = "idle" /\ log # <<>>
LastEv == log[Len(log)]

\* What _prepare left in the bucket of c, and whether it ran for c.
IsPrepared(c) ==
    \E p \in 1..Len(log) : log[p].op = "prepare" /\ log[p].cls = c /\ log[p].res = "ok"
PreparedOf(c) ==
    log[CHOOSE p \in 1..Len(log) :
            log[p].op = "prepare" /\ log[p].cls = c /\ log[p].res = "ok"].batch
\* The number of pending records save_all counted for c.
ReservedCount(c) ==
    log[1].batch[CHOOSE i \in 1..Len(log[1].batch) : log[1].batch[i][1] = c][2]

\* C2 as stated: when save_all returns or raises, every bucket is empty.
C2_AllBucketsEmptyOnReturn ==
    Returned => \A c \in Classes : saving[c] = <<>>

\* C2: after a normal return every bucket is empty; after an error from a write of
\* class k the buckets up to k are empty and the later ones hold what _prepare left;
\* after an error from reserve, prepare or before_save no bucket was emptied.
C2_BucketsOnReturn ==
    Returned =>
        /\ result = "ok" => \A c \in Classes : saving[c] = <<>>
        /\ \A c \in Classes \ Reserved : saving[c] = <<>>
        /\ result # "ok" /\ LastEv.op \in {"insert", "merge"} =>
               \A c \in Reserved :
                   IF c = LastEv.cls \/ Before(c, LastEv.cls)
                   THEN saving[c] = <<>>
                   ELSE saving[c] = PreparedOf(c)
        /\ result # "ok" /\ LastEv.op \in {"reserve", "prepare", "before_save"} =>
               \A c \in Reserved :
                   IF IsPrepared(c)
                   THEN saving[c] = PreparedOf(c)
                   ELSE Len(saving[c]) = ReservedCount(c)

\* save_all raised from a write and a later class still holds its records.
C2_Witness ==
    /\ Returned /\ result # "ok" /\ LastEv.op = "insert"
    /\ \E c \in Reserved : Before(LastEv.cls, c) /\ saving[c] # <<>>

\* The record r of class c was inserted, or resolved by a re-merge.
InsertedAt(c, r) ==
    {p \in 1..Len(log) : /\ log[p].op = "insert" /\ log[p].res = "ok"
                         /\ log[p].cls = c /\ r \in Range(log[p].batch)}
MergedAt(c, r) ==
    {p \in 1..Len(log) : /\ log[p].op = "merge" /\ log[p].res = "ok"
                         /\ log[p].cls = c /\ log[p].batch = <<r>>}

\* C3: when save_all raises from a write of class k, every prepared record of the
\* earlier classes is inserted or merged, nothing was written for a later class, the
\* bucket of k is empty, and what an insert committed is still in the store.
C3_PartialFlush ==
    /\ Returned /\ result # "ok" /\ LastEv.op \in {"insert", "merge"} =>
           /\ \A j \in Reserved : Before(j, LastEv.cls) =>
                  \A r \in Range(PreparedOf(j)) :
                      InsertedAt(j, r) \cup MergedAt(j, r) # {}
           /\ \A p \in 1..Len(log) :
                  log[p].op \in WriteOps => ~Before(LastEv.cls, log[p].cls)
           /\ saving[LastEv.cls] = <<>>
    /\ \A p \in 1..Len(log) :
           log[p].op = "insert" /\ log[p].res = "ok" =>
               \A r \in Range(log[p].batch) : r.key \in store[log[p].cls]

\* save_all raised from a write of class k after it wrote an earlier class.
C3_Witness ==
    /\ Returned /\ result # "ok" /\ LastEv.op \in {"insert", "merge"}
    /\ \E j \in Reserved : Before(j, LastEv.cls) /\ PreparedOf(j) # <<>>

\* C4: with failed inserts inserting nothing and no error other than duplicate keys
\* resolved by merge, save_all returns normally whatever rows another writer inserted
\* before the writes, and every prepared record is then inserted by one insert or
\* resolved by one re-merge, never both, never twice, never neither.
C4_ExactlyOnce ==
    /\ \A c \in Reserved : IsPrepared(c) =>
           \A r \in Range(PreparedOf(c)) :
               /\ Cardinality(InsertedAt(c, r)) + Cardinality(MergedAt(c, r)) <= 1
               /\ Returned /\ result = "ok" =>
                      Cardinality(InsertedAt(c, r)) + Cardinality(MergedAt(c, r)) = 1
    /\ Returned /\ result # "ok" =>
           LastEv.res \in {"OperationalError", "ValueError", "HookError"}
    /\ pc = "batch" =>
           ENABLED (SaveBatchInserted \/ SaveBatchRemerged \/ SaveBatchSplit)

\* save_all returned normally after another writer's row made a batch of two fail:
\* one record was re-merged, the other inserted.
C4_Witness ==
    /\ Returned /\ result = "ok"
    /\ \E p \in 1..Len(log) : log[p].op = "before_save"
    /\ \E p, q, m \in 1..Len(log) :
           /\ log[p].op = "insert" /\ log[p].res = "IntegrityError"
           /\ Len(log[p].batch) = 2
           /\ log[q].op = "insert" /\ log[q].res = "ok" /\ log[q].cls = log[p].cls
           /\ log[m].op = "merge" /\ log[m].res = "ok" /\ log[m].cls = log[p].cls

\* The event at p opens a _save_batch call made by _save itself.
TopLevelAt(p) == p = 1 \/ log[p - 1].op \in {"save", "round_trips", "before_save"}

\* C5: a duplicate key on a batch of one is followed by merge on that record; when
\* merge resolves it the record is not inserted, no error is raised and the batch
\* took one round trip; when it does not, ValueError on that class and record ends
\* save_all with no further write.
C5_SingletonConflict ==
    /\ \A p \in 1..Len(log) :
           log[p].op = "insert" /\ log[p].res = "IntegrityError"
           /\ Len(log[p].batch) = 1 =>
               /\ p < Len(log)
               /\ log[p + 1].op = "merge"
               /\ log[p + 1].cls = log[p].cls
               /\ log[p + 1].batch = log[p].batch
               /\ log[p + 1].res \in {"ok", "ValueError"}
               /\ log[p + 1].res = "ok" =>
                      /\ InsertedAt(log[p].cls, log[p].batch[1]) = {}
                      /\ p + 1 = Len(log) => pc = "batch"
                      /\ p + 1 < Len(log) =>
                             log[p + 2].op \in {"insert", "round_trips"}
                      /\ TopLevelAt(p) =>
                             /\ p + 1 < Len(log)
                             /\ log[p + 2].op = "round_trips"
                             /\ log[p + 2].batch = log[p].batch
                             /\ log[p + 2].n = 1
               /\ log[p + 1].res = "ValueError" =>
                      /\ p + 1 = Len(log)
                      /\ pc = "idle"
                      /\ result = "ValueError"
    /\ \A p \in 1..Len(log) :
           log[p].op = "merge" =>
               /\ p > 1
               /\ log[p - 1].op = "insert" /\ log[p - 1].res = "IntegrityError"
               /\ Len(log[p - 1].batch) = 1

\* One save_all re-merged a record and then raised on another that merge did not
\* resolve.
C5_Witness ==
    /\ Returned /\ result = "ValueError"
    /\ LastEv.op = "merge" /\ LastEv.res = "ValueError"
    /\ \E p \in 1..Len(log) : log[p].op = "merge" /\ log[p].res = "ok"

\* C6: an error of the insert that is no duplicate key ends save_all at once with
\* that error: no split, no re-merge, no further insert.
C6_OtherErrorAborts ==
    \A p \in 1..Len(log) :
        log[p].op = "insert" /\ log[p].res = "OperationalError" =>
            /\ p = Len(log)
            /\ pc = "idle"
            /\ result = "OperationalError"
            /\ stack = <<>>
            /\ chunks = <<>>

\* The insert of the first of two sub-batches raised, with further batches of the
\* class and a further class still to write.
C6_Witness ==
    /\ Returned /\ result = "OperationalError" /\ LastEv.op = "insert"
    /\ Len(log) > 1
    /\ log[Len(log) - 1].op = "insert" /\ log[Len(log) - 1].res = "IntegrityError"
    /\ Len(log[Len(log) - 1].batch) > Len(LastEv.batch)
    /\ \E p \in 1..Len(log) :
           /\ log[p].op = "save" /\ log[p].cls = LastEv.cls
           /\ Len(log[p].batch) > BATCH_SIZE
           /\ LastEv.batch[1] = log[p].batch[1]
    /\ \E c \in Reserved : Before(LastEv.cls, c) /\ saving[c] # <<>>

CeilDiv(a, b) == (a + b - 1) \div b

\* _save is over for the class whose "save" event is at p.
SaveOver(p) == \E q \in (p + 1)..Len(log) : log[q].op \in {"save", "return"}

NoCollision(c) ==
    \A q \in 1..Len(log) : log[q].cls = c => log[q].res # "IntegrityError"

\* The lengths of the batches of 100000 records under the BATCH_SIZE of the class.
Example100k ==
    LET b == SplitEvery(DEFAULT_BATCH_SIZE, [i \in 1..100000 |-> i])
    IN [k \in 1..Len(b) |-> Len(b[k])]

\* C7: writing N records of one class without key collisions takes
\* ceil(N / BATCH_SIZE) inserts, one per batch; the batches are the consecutive
\* slices of BATCH_SIZE records, the last one possibly shorter.
C7_OneInsertPerBatch ==
    /\ \A p \in 1..Len(log) :
           log[p].op = "save" /\ SaveOver(p) /\ NoCollision(log[p].cls) =>
               LET items == log[p].batch
                   N == Len(items)
                   C == CeilDiv(N, BATCH_SIZE)
               IN /\ Cardinality({q \in 1..Len(log) :
                         log[q].op = "insert" /\ log[q].cls = log[p].cls}) = C
                  /\ \A k \in 1..C :
                         /\ log[p + 2 * k - 1] =
                                Ev("insert", log[p].cls,
                                   SubSeq(items, (k - 1) * BATCH_SIZE + 1,
                                          Min(k * BATCH_SIZE, N)), "ok", 0)
                         /\ k < C => Len(log[p + 2 * k - 1].batch) = BATCH_SIZE
                         /\ log[p + 2 * k].op = "round_trips"
                         /\ log[p + 2 * k].n = 1
    /\ Example100k = <<30000, 30000, 30000, 10000>>

\* A list longer than BATCH_SIZE, and no multiple of it, was written without a
\* collision.
C7_Witness ==
    \E p \in 1..Len(log) :
        /\ log[p].op = "save" /\ SaveOver(p) /\ NoCollision(log[p].cls)
        /\ Len(log[p].batch) > 2 * BATCH_SIZE
        /\ Len(log[p].batch) % BATCH_SIZE # 0

\* C8: with BATCH_SPLIT_FACTOR = 4, a batch of 8 records of which exactly one
\* collides, and is resolved by merge, takes 7 round trips wherever the record is.
C8_SevenRoundTrips ==
    \A p \in 1..Len(log) :
        /\ log[p].op = "round_trips"
        /\ Len(log[p].batch) = 8
        /\ Cardinality({q \in 1..p : log[q].op = "merge"}) = 1
        => log[p].n = 7

\* The batch of 8 whose last record collides returned.
C8_Witness ==
    \E p, q \in 1..Len(log) :
        /\ log[p].op = "round_trips" /\ Len(log[p].batch) = 8
        /\ Cardinality({m \in 1..p : log[m].op = "merge"}) = 1
        /\ log[q].op = "merge" /\ log[q].batch[1].key = 8

\* C9: while every add_all was given records of one class and no save_all failed,
\* dump_stats gives for each class the number of records added and not flushed yet,
\* and zero for each class right after save_all returned.
C9_DumpStats ==
    /\ pc = "idle" /\ clean =>
           \A i \in 1..Len(SAVING_CLASSES_ORDER) :
               dump_stats[i] = <<SAVING_CLASSES_ORDER[i], added[SAVING_CLASSES_ORDER[i]]>>
    /\ Returned /\ result = "ok" =>
           \A i \in 1..Len(SAVING_CLASSES_ORDER) :
               dump_stats[i] = <<SAVING_CLASSES_ORDER[i], 0>>

\* A record was added after a flush that inserted another one.
C9_Witness ==
    /\ pc = "idle" /\ clean /\ log = <<>>
    /\ \E c \in Classes : store[c] # {}
    /\ \E c \in Classes : added[c] = 1 /\ Len(saving[c]) = 1

\* save_all was called with every bucket empty.
EmptyCall ==
    /\ log # <<>> /\ log[1].op = "reserve"
    /\ \A i \in 1..Len(log[1].batch) : log[1].batch[i][2] = 0

\* C10 as stated: save_all on empty buckets does nothing against the store: no
\* session for reserve, no prepare, no insert.
C10_NothingOpened ==
    EmptyCall =>
        \A p \in 1..Len(log) :
            log[p].op \notin {"reserve", "prepare", "save", "insert", "merge"}

\* C10: save_all on empty buckets prepares and inserts nothing and leaves the
\* buckets empty; it does open the session for reserve, once, with no class, and
\* calls before_save.
C10_NothingWritten ==
    EmptyCall =>
        /\ \A p \in 1..Len(log) : log[p].op \in {"reserve", "before_save", "return"}
        /\ \A p \in 2..Len(log) : log[p].op # "reserve"
        /\ log[1].batch = <<>>
        /\ \A c \in Classes : saving[c] = <<>>

\* save_all returned from a call on empty buckets made after an earlier flush.
C10_Witness ==
    /\ EmptyCall /\ Returned /\ result = "ok"
    /\ \E c \in Classes : store[c] # {}

\* C11: add of a record whose class is not in SAVING_CLASSES_ORDER raises and
\* leaves every bucket as it was; add of a record of a listed class appends that
\* record to the bucket of its class and leaves the other buckets as they were.
C11_Add ==
    [][\A item \in NewRecords :
           Add(item) =>
               IF item.model \in Classes
               THEN LET old == saving[item.model]
                        new == saving'[item.model]
                    IN /\ result' = "ok"
                       /\ Len(new) = Len(old) + 1
                       /\ SubSeq(new, 1, Len(old)) = old
                       /\ new[Len(new)].model = item.model
                       /\ new[Len(new)].key = item.key
                       /\ new[Len(new)].shape = item.shape
                       /\ \A c \in Classes \ {item.model} : saving'[c] = saving[c]
               ELSE /\ result' # "ok"
                    /\ saving' = saving]_vars

\* add of a record of another class raised while a bucket held a record.
C11_Witness ==
    /\ pc = "idle" /\ result = "AssertionError"
    /\ \E c \in Classes : saving[c] # <<>>

\* C12 as stated: whatever lists add_all was given, lists of records of several
\* classes included, every record in the bucket of a class is of that class.
C12_BucketHoldsItsType ==
    \A c \in Classes : \A i \in 1..Len(saving[c]) : saving[c][i].model = c

\* The classes the reserve of the running (or last) save_all was given, in its order.
RunClasses == [i \in 1..Len(log[1].batch) |-> log[1].batch[i][1]]

\* The classes with records added since the last flush, in dependency order.
PendingClasses == SelectSeq(SAVING_CLASSES_ORDER, LAMBDA c : added[c] > 0)

BatchOps == {"save", "insert", "merge", "round_trips"}

\* C13: a save_all run makes one reserve, for exactly the classes with pending
\* records and their counts before prepare; then one prepare per such class in
\* dependency order; then before_save, once; then the writes class by class in
\* dependency order, each class's writes over before the next class's start. A
\* class with an empty bucket is neither prepared nor written.
C13_Order ==
    log # <<>> /\ log[1].op = "reserve" =>
        LET rc == RunClasses
            m == Len(rc)
        IN /\ \A p \in 2..Len(log) : log[p].op # "reserve"
           /\ pc # "idle" /\ clean =>
                  log[1].batch = [i \in 1..Len(PendingClasses) |->
                                     <<PendingClasses[i], added[PendingClasses[i]]>>]
           /\ \A i, j \in 1..m : i < j => Before(rc[i], rc[j])
           /\ \A p \in 2..Len(log) :
                  /\ p <= m + 1 => log[p].op = "prepare" /\ log[p].cls = rc[p - 1]
                  /\ p > m + 1 => log[p].op # "prepare"
                  /\ log[p].op = "before_save" => p = m + 2
                  /\ log[p].op \in BatchOps =>
                         /\ p > m + 1
                         /\ log[p].cls \in Range(rc)
                         /\ \A q \in 2..(p - 1) :
                                log[q].op \in BatchOps => ~Before(log[p].cls, log[q].cls)
                         /\ log[p].op # "save" =>
                                \E q \in 2..(p - 1) :
                                    log[q].op = "save" /\ log[q].cls = log[p].cls
           /\ \A c \in Classes :
                  Cardinality({p \in 1..Len(log) :
                                   log[p].op = "save" /\ log[p].cls = c}) <= 1
           /\ log[Len(log)].op = "return" =>
                  \A c \in Range(rc) :
                      \E p \in 1..Len(log) : log[p].op = "save" /\ log[p].cls = c

\* save_all returned after it saved two classes, with a before_save hook, while a
\* third class had nothing pending.
C13_Witness ==
    /\ log # <<>> /\ log[1].op = "reserve" /\ log[Len(log)].op = "return"
    /\ Len(RunClasses) = 2
    /\ \E p \in 1..Len(log) : log[p].op = "before_save"
    /\ \E p \in 1..Len(log) : log[p].op = "insert" /\ log[p].cls = RunClasses[2]

\* The j-th slice of size s of the batch b.
Part(b, s, j) == SubSeq(b, (j - 1) * s + 1, Min(j * s, Len(b)))

RECURSIVE Concat(_)
Concat(ss) == IF ss = <<>> THEN <<>> ELSE Head(ss) \o Concat(Tail(ss))

\* Where the insert of the batch b was tried.
InsertOf(b) == CHOOSE q \in 1..Len(log) : log[q].op = "insert" /\ log[q].batch = b
Tried(b) == \E q \in 1..Len(log) : log[q].op = "insert" /\ log[q].batch = b

\* C15: a batch of n >= 2 records whose insert hit a duplicate key is split in
\* consecutive sub-batches of ceil(n / BATCH_SPLIT_FACTOR) records, the last one
\* possibly shorter: none is empty, each is shorter than the batch, there are at
\* most BATCH_SPLIT_FACTOR of them, together and in order they are the batch, and
\* each goes through _save_batch in its turn.
C15_Split ==
    \A k \in 1..(Len(stack) - 1) :
        LET b == stack[k].batch
            n == Len(b)
            s == CeilDiv(n, BATCH_SPLIT_FACTOR)
            np == CeilDiv(n, s)
            rest == <<stack[k + 1].batch>> \o stack[k].subs
            done == np - Len(rest)
        IN /\ n >= 2
           /\ Tried(b) /\ log[InsertOf(b)].res = "IntegrityError"
           /\ np <= BATCH_SPLIT_FACTOR
           /\ done >= 0
           /\ \A j \in 1..Len(rest) : rest[j] = Part(b, s, done + j)
           /\ \A j \in 1..np :
                  /\ Part(b, s, j) # <<>>
                  /\ Len(Part(b, s, j)) < n
                  /\ j < np => Len(Part(b, s, j)) = s
           /\ Concat([j \in 1..np |-> Part(b, s, j)]) = b
           /\ \A j \in 1..done :
                  /\ Tried(Part(b, s, j))
                  /\ InsertOf(b) < InsertOf(Part(b, s, j))
                  /\ j > 1 => InsertOf(Part(b, s, j - 1)) < InsertOf(Part(b, s, j))
           /\ Tried(stack[k + 1].batch) => stack[k + 1].subs # <<>> \/ k + 1 < Len(stack)

\* A batch of 7 was split in 2, 2, 2, 1; its first two sub-batches are done and the
\* third was split in its turn.
C15_Witness ==
    /\ Len(stack) = 3
    /\ Len(stack[1].batch) = 7
    /\ Len(stack[1].subs) = 1 /\ Len(stack[1].subs[1]) = 1
    /\ Len(stack[2].batch) = 2

\* The keys of the batch b of cls that were in the table before b's first insert.
Duplicates(cls, b) ==
    {b[i].key : i \in 1..Len(b)} \cap
        (store[cls] \
            UNION {{log[q].batch[i].key : i \in 1..Len(log[q].batch)} :
                      q \in {x \in 1..Len(log) :
                                log[x].op = "insert" /\ log[x].res = "ok"}})

\* The number of inserts tried on batches of len records.
InsertsOfLen(len) ==
    Cardinality({q \in 1..Len(log) : log[q].op = "insert" /\ Len(log[q].batch) = len})

\* The log holds the return of _save_batch for a batch of 8 records of which one was
\* a duplicate, and nothing of another batch.
EightWithOneDuplicate ==
    \E p \in 1..Len(log) :
        /\ log[p].op = "round_trips"
        /\ Len(log[p].batch) = 8
        /\ Cardinality(Duplicates(log[p].cls, log[p].batch)) = 1
        /\ \A q \in 1..Len(log) : log[q].op = "round_trips" => q = p

\* The key of that duplicate.
TheDuplicate ==
    LET p == CHOOSE q \in 1..Len(log) : log[q].op = "round_trips"
    IN CHOOSE k \in Duplicates(log[p].cls, log[p].batch) : TRUE

\* C16 as stated: the batch of 8 is split in 2 sub-batches of 4, and the sub-batch
\* of 4 with the duplicate in 4 sub-batches of 1.
C16_TwoOfFourThenFourOfOne ==
    EightWithOneDuplicate =>
        /\ InsertsOfLen(8) = 1
        /\ InsertsOfLen(4) = 2
        /\ InsertsOfLen(1) = 4
        /\ \A q \in 1..Len(log) : log[q].op = "insert" => Len(log[q].batch) \in {8, 4, 1}

\* C16: with BATCH_SPLIT_FACTOR = 4 the batch of 8 is split in 4 sub-batches of 2,
\* and the sub-batch of 2 with the duplicate in 2 sub-batches of 1.
C16_FourOfTwoThenTwoOfOne ==
    EightWithOneDuplicate =>
        /\ InsertsOfLen(8) = 1
        /\ InsertsOfLen(2) = 4
        /\ InsertsOfLen(1) = 2
        /\ \A q \in 1..Len(log) : log[q].op = "insert" => Len(log[q].batch) \in {8, 2, 1}
        /\ \A q \in 1..Len(log) :
               log[q].op = "insert" /\ Len(log[q].batch) = 1 =>
                   \E p \in 1..(q - 1) :
                       /\ log[p].op = "insert" /\ log[p].res = "IntegrityError"
                       /\ Len(log[p].batch) = 2
                       /\ log[q].batch[1] \in Range(log[p].batch)
                       /\ \E i \in 1..2 : log[p].batch[i].key = TheDuplicate

\* The batch of 8 whose fifth record was a duplicate returned.
C16_Witness ==
    /\ EightWithOneDuplicate
    /\ TheDuplicate = 5
    /\ \E q \in 1..Len(log) : log[q].op = "merge" /\ log[q].batch[1].key = 5

RECURSIVE Pow(_, _)
Pow(b, e) == IF e = 0 THEN 1 ELSE b * Pow(b, e - 1)

\* The splits between the batch _save handed over and the innermost call.
Depth == Len(stack) - 1

\* C17 as stated, its bound: the nesting depth is at most log_SPLIT_FACTOR(n), that
\* is SPLIT_FACTOR ^ depth <= n.
C17_DepthAtMostLog ==
    stack # <<>> => Pow(BATCH_SPLIT_FACTOR, Depth) <= Len(stack[1].batch)

\* The depth is at most the ceiling of log_SPLIT_FACTOR(n); every nested call has a
\* shorter batch than its caller, and only a batch of one record is re-merged.
DepthBound ==
    /\ stack # <<>> /\ Depth > 0 =>
           Pow(BATCH_SPLIT_FACTOR, Depth - 1) < Len(stack[1].batch)
    /\ \A k \in 1..(Len(stack) - 1) :
           /\ Len(stack[k + 1].batch) < Len(stack[k].batch)
           /\ Len(stack[k + 1].batch) >= 1
    /\ \A q \in 1..Len(log) : log[q].op = "merge" => Len(log[q].batch) = 1

\* C17: _save_batch terminates whatever records of the batch are duplicates; it
\* splits down to batches of one record, and its nesting depth on a batch of n
\* records is at most the ceiling of log_SPLIT_FACTOR(n).
C17_Terminates == []DepthBound /\ <>(pc = "idle")

\* A batch of 8 with a duplicate is at its deepest: two splits, a batch of one.
C17_Witness ==
    /\ stack # <<>>
    /\ Len(stack[1].batch) = 8
    /\ Depth = 2
    /\ Len(Top.batch) = 1
    /\ Conflicts(CurrentClass, Top.batch)

\* The least e with b ^ e >= n.
RECURSIVE CeilLog(_, _)
CeilLog(b, n) == IF n <= 1 THEN 0 ELSE 1 + CeilLog(b, CeilDiv(n, b))

\* C18: a batch of M records of which exactly one is a duplicate, resolved by merge
\* once alone, takes at most 1 + BATCH_SPLIT_FACTOR * ceil(log_BATCH_SPLIT_FACTOR(M))
\* inserts, wherever the duplicate is.
C18_LogarithmicInserts ==
    \A p \in 1..Len(log) :
        /\ log[p].op = "round_trips"
        /\ Cardinality(Duplicates(log[p].cls, log[p].batch)) = 1
        => Cardinality({q \in 1..p : log[q].op = "insert"})
               <= 1 + BATCH_SPLIT_FACTOR
                          * CeilLog(BATCH_SPLIT_FACTOR, Len(log[p].batch))

\* A batch of 9 whose last record was a duplicate returned after 7 inserts.
C18_Witness ==
    \E p \in 1..Len(log) :
        /\ log[p].op = "round_trips"
        /\ Len(log[p].batch) = 9
        /\ Duplicates(log[p].cls, log[p].batch) = {9}
        /\ Cardinality({q \in 1..p : log[q].op = "insert"}) = 7

\* The event before which the _save_batch call that returned at p was made.
CallOf(p) ==
    LET before == {q \in 1..(p - 1) : log[q].op \in {"round_trips", "save"}}
    IN IF before = {} THEN 0 ELSE CHOOSE q \in before : \A r \in before : r <= q

\* The inserts tried for the batch whose _save_batch call returned at p.
InsertsFor(p) == {q \in (CallOf(p) + 1)..(p - 1) : log[q].op = "insert"}

\* C19: the count _save_batch returns to _save for a batch is the number of inserts
\* tried for it, failed ones and those of every nested call included, merges not
\* counted; it is 1 exactly when the first insert went through or the batch held
\* one record.
C19_RoundTrips ==
    \A p \in 1..Len(log) :
        log[p].op = "round_trips" =>
            /\ log[p].n = Cardinality(InsertsFor(p))
            /\ \A q \in (CallOf(p) + 1)..(p - 1) :
                   /\ log[q].op \in {"insert", "merge"}
                   /\ Range(log[q].batch) \subseteq Range(log[p].batch)
            /\ log[CallOf(p) + 1] \in
                   {Ev("insert", log[p].cls, log[p].batch, r, 0) :
                        r \in {"ok", "IntegrityError"}}
            /\ log[p].n = 1 <=>
                   \/ log[CallOf(p) + 1].res = "ok"
                   \/ Len(log[p].batch) = 1

\* A batch took a nested split and a merge, and more round trips than inserts that
\* failed.
C19_Witness ==
    \E p \in 1..Len(log) :
        /\ log[p].op = "round_trips"
        /\ log[p].n > 4
        /\ \E q \in InsertsFor(p) : log[q].res = "IntegrityError" /\ Len(log[q].batch) = 1
        /\ \E q \in InsertsFor(p) :
               /\ log[q].res = "IntegrityError"
               /\ 1 < Len(log[q].batch) /\ Len(log[q].batch) < Len(log[p].batch)

\* Where the record r stands in the list s.
IndexIn(s, r) == CHOOSE i \in 1..Len(s) : s[i] = r

\* C20: _prepare leaves in the bucket exactly the records cls.prepare returned, each
\* once, so ordered that the records with the same field names stand together, and
\* those among them in the order cls.prepare gave them.
C20_Prepare ==
    [][Prepare =>
           LET cls == saving_classes[idx]
               ret == ClsPrepare(cls, saving[cls])
               new == saving'[cls]
           IN /\ Len(new) = Len(ret)
              /\ Range(new) = Range(ret)
              /\ \A i, j \in 1..Len(new) : i # j => new[i] # new[j]
              /\ \A i, j, k \in 1..Len(new) :
                     i < j /\ j < k /\ Range(new[i].shape) = Range(new[k].shape)
                         => Range(new[j].shape) = Range(new[i].shape)
              /\ \A i, j \in 1..Len(new) :
                     i < j /\ Range(new[i].shape) = Range(new[j].shape)
                         => IndexIn(ret, new[i]) < IndexIn(ret, new[j])
              /\ \A c \in Classes \ {cls} : saving'[c] = saving[c]]_vars

\* _prepare kept three records and moved one of them before two others that have
\* the same field names.
C20_Witness ==
    /\ pc = "hook"
    /\ log[Len(log)].op = "prepare" /\ log[Len(log)].res = "ok"
    /\ LET b == saving["SharedText"]
       IN /\ Len(b) = 3
          /\ b[1].seq = 3 /\ b[2].seq = 1 /\ b[3].seq = 2
          /\ b[2].shape = b[3].shape

\* The rows and the tables agree: one row per key of a table.
RowsAgree ==
    /\ \A c \in Classes : store[c] = {row.key : row \in {x \in rows : x.cls = c}}
    /\ \A x, y \in rows : x.cls = y.cls /\ x.key = y.key => x = y

\* C14: when save_all inserts a record that holds the id object of a SharedText
\* record pending in the same save_all, the foreign key of the row is the primary
\* key of the row that has the SharedText record's key, also when another writer
\* inserted that row between prepare and write and the record was merged again.
C14_ForeignKey ==
    /\ RowsAgree
    /\ \A q \in 1..Len(log) :
           log[q].op = "insert" /\ log[q].res = "ok" /\ RefClass \in Reserved =>
               \A i \in 1..Len(log[q].batch) :
                   LET r == log[q].batch[i] IN
                   r.ref # 0 =>
                       /\ r.ref \in store[RefClass]
                       /\ \E row \in rows :
                              /\ row.cls = log[q].cls /\ row.key = r.key
                              /\ row.fk # NullId
                              /\ row.fk = RowId(RefClass, r.ref)

\* save_all returned; the SharedText record met a row of another writer at its
\* insert and was merged again, and the row of the record that references it
\* carries that row's key.
C14_Witness ==
    /\ log # <<>> /\ log[Len(log)].op = "return"
    /\ \E row \in rows :
           /\ row.cls = "IssueInstance"
           /\ row.fk.by = "other"
           /\ \E q \in 1..Len(log) :
                  /\ log[q].op = "merge" /\ log[q].res = "ok"
                  /\ log[q].cls = RefClass
                  /\ log[q].batch[1].key = row.fk.key
====
